---- MODULE Spec2Model ----
(***************************************************************************)
(* Model of src/auth.rs of rust-etcd: the three auth operations (enable,   *)
(* disable, status), each a closure handed to first_ok together with the   *)
(* client's endpoint list.  first_ok (module async) drives the closure     *)
(* over the endpoints one at a time.                                       *)
(*                                                                         *)
(* Strings are sequences of tokens: "http://a/" is <<"http","://","a","/">>*)
(***************************************************************************)
EXTENDS Integers, Sequences, FiniteSets, TLC

\* Longest endpoint list a client is built with.
MaxEndpoints == 3

\* The endpoint Uris a client may hold: an absolute Uri without and with a
\* trailing slash, and an authority-form Uri (host:port, no scheme).
EndpointUris ==
    { <<"http", "://", "a">>, <<"http", "://", "a", "/">>, <<"a:80">> }

\* Status codes a member may answer with.
StatusCodes == {200, 400, 401, 409, 418}

\* Status codes a member may answer a status query with.
StatusQueryCodes == {200, 500}

Operations == {"enable", "disable", "status"}

\* The body of a response whose body is never read.
NoBody == [json |-> "none", enabled |-> "absent", errorCode |-> "absent"]

\* Response bodies: not JSON at all, a JSON object holding an "enabled"
\* boolean or the fields of an etcd error, or a body stream that breaks
\* while it is read.
Bodies ==
    { [json |-> "garbage", enabled |-> "absent", errorCode |-> "absent"],
      [json |-> "object",  enabled |-> "true",   errorCode |-> "absent"],
      [json |-> "object",  enabled |-> "false",  errorCode |-> "absent"],
      [json |-> "object",  enabled |-> "absent", errorCode |-> "110"],
      [json |-> "ioerror", enabled |-> "absent", errorCode |-> "absent"] }

\* The headers of the response of the member at list position i.  Every
\* response carries its own X-Etcd-Index, so that the response a
\* ClusterInfo was taken from can be told from the ClusterInfo.
HeadersAt(i) ==
    [ContentType |-> "application/json", XEtcdClusterId |-> "c0",
     XEtcdIndex |-> 100 + i]

\* The connection to the member at position i fails.
ConnFail(i) ==
    [kind |-> "connfail", status |-> 0, headers |-> HeadersAt(i),
     body |-> NoBody]

\* What the member at position i does with a request of operation o: the
\* connection fails, or it answers.  enable and disable never read the
\* body, so their responses carry none.
Behaviours(o, i) ==
    { ConnFail(i) }
    \cup
    IF o = "status"
    THEN [kind : {"response"}, status : StatusQueryCodes,
          headers : {HeadersAt(i)}, body : Bodies]
    ELSE [kind : {"response"}, status : StatusCodes,
          headers : {HeadersAt(i)}, body : {NoBody}]

VARIABLES
    endpoints,   \* client.endpoints(): the caller-supplied list
    net,         \* net[i]: behaviour of the member at position i
    op,          \* the public operation called
    pc,          \* "idle", "wait" (a request is in flight), "done"
    idx,         \* position of the endpoint of the current future
    errors,      \* first_ok's accumulated errors
    attempted,   \* positions the closure was invoked for, in order
    requests,    \* network calls issued, in order
    result,      \* what the dispatch resolved with
    second,      \* a second call of the same operation on the same client
    url_in,      \* the arguments of a call of build_url
    url_out,     \* what that call returned
    user_update, \* a UserUpdate
    role_update, \* a RoleUpdate
    calls        \* the methods called on the update, in order

dispatch_vars ==
    <<endpoints, net, op, pc, idx, errors, attempted, requests, result>>
repeat_vars == <<second>>
url_vars == <<url_in, url_out>>
update_vars == <<user_update, role_update, calls>>

vars == <<dispatch_vars, repeat_vars, url_vars, update_vars>>

----------------------------------------------------------------------------
\* Results and errors

NoResult == [tag |-> "none"]
Ok(data, cluster_info) ==
    [tag |-> "Ok", data |-> data, cluster_info |-> cluster_info]
Err(e) == [tag |-> "Err", error |-> e]
\* The dispatch's Err(Vec<Error>)
Failed(errs) == [tag |-> "Err", errors |-> errs]

InvalidUri == [kind |-> "InvalidUri", code |-> 0, cause |-> "uri"]
Http(cause) == [kind |-> "Http", code |-> 0, cause |-> cause]
UnexpectedStatus(status) ==
    [kind |-> "UnexpectedStatus", code |-> status, cause |-> "status"]
Serialization == [kind |-> "Serialization", code |-> 0, cause |-> "json"]
Api(body) == [kind |-> "Api", code |-> 0, cause |-> body.errorCode]

\* The error kinds the specification calls Transport-class.
TransportKinds == {"InvalidUri", "Http"}


----------------------------------------------------------------------------
\* Strings

ends_with(s, tok) == Len(s) > 0 /\ s[Len(s)] = tok
contains(s, tok) == \E k \in 1..Len(s) : s[k] = tok

\* build_url: format!("{}{}v2/auth{}", endpoint, maybe_slash, path)
build_url(endpoint, path) ==
    LET maybe_slash == IF ends_with(endpoint, "/") THEN <<>> ELSE <<"/">>
    IN  endpoint \o maybe_slash \o <<"v2", "/", "auth">> \o path

EnablePath == <<"/", "enable">>

\* Uri::from_str(url): "*" is the asterisk form, a leading "/" the origin
\* form, a "://" the absolute form; anything else that holds a "/" or a
\* "?" is malformed; the rest is the authority form.
UriFromStr(url) ==
    IF Len(url) = 0 THEN [ok |-> FALSE, uri |-> url]
    ELSE IF url = <<"*">> \/ url[1] = "/" \/ contains(url, "://")
         THEN [ok |-> TRUE, uri |-> url]
    ELSE IF contains(url, "/") \/ contains(url, "?")
         THEN [ok |-> FALSE, uri |-> url]
    ELSE [ok |-> TRUE, uri |-> url]

\* ClusterInfo::from(response.headers()): the etcd headers of a response.
ClusterInfoFrom(headers) ==
    [cluster_id |-> headers.XEtcdClusterId, etcd_index |-> headers.XEtcdIndex]

\* serde_json::from_slice::<AuthStatus>(body)
ParseAuthStatus(body) ==
    IF body.json = "object" /\ body.enabled \in {"true", "false"}
    THEN [ok |-> TRUE, enabled |-> (body.enabled = "true")]
    ELSE [ok |-> FALSE, enabled |-> FALSE]

\* serde_json::from_slice::<ApiError>(body)
ParseApiError(body) ==
    [ok |-> (body.json = "object" /\ body.errorCode # "absent")]

----------------------------------------------------------------------------
\* DisableAuth and EnableAuth

\* is_disabled with Unauthorized among the variants that count as disabled.
is_disabled_all(data) ==
    data \in {"AlreadyDisabled", "Disabled", "Unauthorized"}

\* DisableAuth::is_disabled
is_disabled(data) ==
    CASE data \in {"AlreadyDisabled", "Disabled"} -> TRUE
      [] data = "Unauthorized" -> FALSE

\* EnableAuth::is_enabled
is_enabled(data) ==
    CASE data \in {"AlreadyEnabled", "Enabled"} -> TRUE
      [] data = "RootUserRequired" -> FALSE

----------------------------------------------------------------------------
\* The closures of disable, enable and status

\* A request the http client is asked to send, or the failed future of a
\* url that is no Uri.
Request(method, uri, body) ==
    [issued |-> TRUE, method |-> method, uri |-> uri, body |-> body]
NoRequest(url) ==
    [issued |-> FALSE, method |-> "none", uri |-> url, body |-> "none"]

\* disable: build_url, Uri::from_str, http_client.delete(uri)
disable_request(member) ==
    LET url == build_url(member, EnablePath)
        uri == UriFromStr(url)
    IN  IF uri.ok THEN Request("DELETE", uri.uri, "none") ELSE NoRequest(url)

\* disable without the Conflict arm.
disable_response_no_conflict(response) ==
    LET status == response.status
        cluster_info == ClusterInfoFrom(response.headers)
    IN  CASE status = 200 -> Ok("Disabled", cluster_info)
          [] status = 401 -> Ok("Unauthorized", cluster_info)
          [] OTHER -> Err(UnexpectedStatus(status))

\* disable with the Ok and Conflict arms exchanged.
disable_response_swapped(response) ==
    LET status == response.status
        cluster_info == ClusterInfoFrom(response.headers)
    IN  CASE status = 200 -> Ok("AlreadyDisabled", cluster_info)
          [] status = 409 -> Ok("Disabled", cluster_info)
          [] status = 401 -> Ok("Unauthorized", cluster_info)
          [] OTHER -> Err(UnexpectedStatus(status))

\* disable with a last arm that defaults to success.
disable_response_default_ok(response) ==
    LET status == response.status
        cluster_info == ClusterInfoFrom(response.headers)
    IN  CASE status = 200 -> Ok("Disabled", cluster_info)
          [] status = 409 -> Ok("AlreadyDisabled", cluster_info)
          [] status = 401 -> Ok("Unauthorized", cluster_info)
          [] OTHER -> Ok("Disabled", cluster_info)

\* disable matching BadRequest where Unauthorized is meant.
disable_response_bad_request(response) ==
    LET status == response.status
        cluster_info == ClusterInfoFrom(response.headers)
    IN  CASE status = 200 -> Ok("Disabled", cluster_info)
          [] status = 409 -> Ok("AlreadyDisabled", cluster_info)
          [] status = 400 -> Ok("Unauthorized", cluster_info)
          [] OTHER -> Err(UnexpectedStatus(status))

\* disable: response.and_then(|response| match status ...)
disable_response(response) ==
    LET status == response.status
        cluster_info == ClusterInfoFrom(response.headers)
    IN  CASE status = 200 -> Ok("Disabled", cluster_info)
          [] status = 409 -> Ok("AlreadyDisabled", cluster_info)
          [] status = 401 -> Ok("Unauthorized", cluster_info)
          [] OTHER -> Err(UnexpectedStatus(status))

\* enable: build_url, Uri::from_str, http_client.put(uri, "")
enable_request(member) ==
    LET url == build_url(member, EnablePath)
        uri == UriFromStr(url)
    IN  IF uri.ok THEN Request("PUT", uri.uri, "") ELSE NoRequest(url)

\* enable with a last arm that loses the status code.
enable_response_lost_code(response) ==
    LET status == response.status
        cluster_info == ClusterInfoFrom(response.headers)
    IN  CASE status = 200 -> Ok("Enabled", cluster_info)
          [] status = 400 -> Ok("RootUserRequired", cluster_info)
          [] status = 409 -> Ok("AlreadyEnabled", cluster_info)
          [] OTHER -> Err(UnexpectedStatus(500))

\* enable with the BadRequest and Conflict arms exchanged.
enable_response_swapped(response) ==
    LET status == response.status
        cluster_info == ClusterInfoFrom(response.headers)
    IN  CASE status = 200 -> Ok("Enabled", cluster_info)
          [] status = 400 -> Ok("AlreadyEnabled", cluster_info)
          [] status = 409 -> Ok("RootUserRequired", cluster_info)
          [] OTHER -> Err(UnexpectedStatus(status))

\* enable treating the rejection as a failure of the endpoint.
enable_response_reject_is_error(response) ==
    LET status == response.status
        cluster_info == ClusterInfoFrom(response.headers)
    IN  CASE status = 200 -> Ok("Enabled", cluster_info)
          [] status = 409 -> Ok("AlreadyEnabled", cluster_info)
          [] OTHER -> Err(UnexpectedStatus(status))

\* enable: response.and_then(|response| match status ...)
enable_response(response) ==
    LET status == response.status
        cluster_info == ClusterInfoFrom(response.headers)
    IN  CASE status = 200 -> Ok("Enabled", cluster_info)
          [] status = 400 -> Ok("RootUserRequired", cluster_info)
          [] status = 409 -> Ok("AlreadyEnabled", cluster_info)
          [] OTHER -> Err(UnexpectedStatus(status))

\* status sending the request whether or not the url is a Uri.
status_request_unchecked(member) ==
    Request("GET", build_url(member, EnablePath), "none")

\* status: build_url, Uri::from_str, http_client.get(uri)
status_request(member) ==
    LET url == build_url(member, EnablePath)
        uri == UriFromStr(url)
    IN  IF uri.ok THEN Request("GET", uri.uri, "none") ELSE NoRequest(url)

\* status parsing the AuthStatus whatever the status code.
status_response_no_status_check(response) ==
    LET cluster_info == ClusterInfoFrom(response.headers)
        body == response.body
    IN  IF body.json = "ioerror" THEN Err(Http("body"))
        ELSE LET data == ParseAuthStatus(body)
             IN  IF data.ok THEN Ok(data.enabled, cluster_info)
                 ELSE Err(Serialization)

\* status returning a ClusterInfo that was not taken from the response.
status_response_default_info(response) ==
    LET status == response.status
        cluster_info == [cluster_id |-> "", etcd_index |-> 0]
        body == response.body
    IN  IF body.json = "ioerror" THEN Err(Http("body"))
        ELSE IF status = 200
        THEN LET data == ParseAuthStatus(body)
             IN  IF data.ok THEN Ok(data.enabled, cluster_info)
                 ELSE Err(Serialization)
        ELSE LET error == ParseApiError(body)
             IN  IF error.ok THEN Err(Api(body)) ELSE Err(Serialization)

\* status: response.and_then(|response| body.concat2() ... and_then(...))
status_response(response) ==
    LET status == response.status
        cluster_info == ClusterInfoFrom(response.headers)
        body == response.body
    IN  IF body.json = "ioerror" THEN Err(Http("body"))
        ELSE IF status = 200
        THEN LET data == ParseAuthStatus(body)
             IN  IF data.ok THEN Ok(data.enabled, cluster_info)
                 ELSE Err(Serialization)
        ELSE LET error == ParseApiError(body)
             IN  IF error.ok THEN Err(Api(body)) ELSE Err(Serialization)

\* The closure the operation o hands to first_ok, up to the network call.
CallbackRequest(o, member) ==
    CASE o = "disable" -> disable_request(member)
      [] o = "enable"  -> enable_request(member)
      [] o = "status"  -> status_request(member)

\* The rest of the closure: what the future of the call resolves to when
\* the member behaves as b.  http_client errors become Error::Http.
CallbackResult(o, b) ==
    IF b.kind = "connfail" THEN Err(Http("connect"))
    ELSE CASE o = "disable" -> disable_response(b)
           [] o = "enable"  -> enable_response(b)
           [] o = "status"  -> status_response(b)

----------------------------------------------------------------------------
\* first_ok(endpoints, callback): the endpoints are tried one at a time, in
\* the order supplied.  The first Ok resolves the dispatch; an Err is
\* pushed on errors and the next endpoint is tried; after the last
\* endpoint the dispatch resolves with the errors.

\* Polls from endpoint i on: invokes the callback for endpoint i; a future
\* that failed without a network call is collected at once and the next
\* endpoint is taken; a future with a call in flight is waited for.
RECURSIVE first_ok_poll(_, _, _, _, _, _)
first_ok_poll(o, eps, i, errs, att, reqs) ==
    IF i > Len(eps)
    THEN [pc |-> "done", idx |-> i, errors |-> errs, attempted |-> att,
          requests |-> reqs, result |-> Failed(errs)]
    ELSE LET r == CallbackRequest(o, eps[i])
         IN  IF r.issued
             THEN [pc |-> "wait", idx |-> i, errors |-> errs,
                   attempted |-> Append(att, i),
                   requests |-> Append(reqs, [pos |-> i, method |-> r.method,
                                              uri |-> r.uri, body |-> r.body]),
                   result |-> NoResult]
             ELSE first_ok_poll(o, eps, i + 1, Append(errs, InvalidUri),
                                Append(att, i), reqs)

\* first_ok waiting on the same future again when it has failed.
first_ok_resolved_stuck(o, eps, i, errs, att, reqs, res) ==
    IF res.tag = "Ok"
    THEN [pc |-> "done", idx |-> i, errors |-> errs, attempted |-> att,
          requests |-> reqs, result |-> res]
    ELSE [pc |-> "wait", idx |-> i, errors |-> errs, attempted |-> att,
          requests |-> reqs, result |-> NoResult]

\* The future in flight has resolved to res.
first_ok_resolved(o, eps, i, errs, att, reqs, res) ==
    IF res.tag = "Ok"
    THEN [pc |-> "done", idx |-> i, errors |-> errs, attempted |-> att,
          requests |-> reqs, result |-> res]
    ELSE first_ok_poll(o, eps, i + 1, Append(errs, res.error), att, reqs)

----------------------------------------------------------------------------
\* The client and the cluster

\* The endpoint lists a client holds: a client is built with at least one
\* endpoint.
ClientEndpoints ==
    UNION { [1..n -> EndpointUris] : n \in 1..MaxEndpoints }

\* The behaviours of the member at position i.  A member whose composed url
\* is no Uri is never sent a request, so that its behaviour is left out.
MemberBehaviours(o, eps, i) ==
    IF CallbackRequest(o, eps[i]).issued THEN Behaviours(o, i)
    ELSE { ConnFail(i) }

RECURSIVE Nets(_, _, _)
Nets(o, eps, n) ==
    IF n = 0 THEN { <<>> }
    ELSE { Append(s, b) : s \in Nets(o, eps, n - 1),
                          b \in MemberBehaviours(o, eps, n) }

\* The list handed to first_ok without its first endpoint.
DispatchedEndpoints_skip_first == Tail(endpoints)

\* The list handed to first_ok after Vec::dedup: an endpoint equal to the
\* one before it is dropped.
DispatchedEndpoints_dedup ==
    LET keep == { i \in 1..Len(endpoints) :
                    i = 1 \/ endpoints[i] # endpoints[i - 1] }
        nth(k) == CHOOSE i \in keep :
                    Cardinality({ j \in keep : j <= i }) = k
    IN  [k \in 1..Cardinality(keep) |-> endpoints[nth(k)]]

\* client.endpoints().to_vec(): the list handed to first_ok.
DispatchedEndpoints == endpoints

\* A call that has not been made: nothing attempted, nothing in flight.
NotCalled ==
    [pc |-> "idle", idx |-> 0, errors |-> <<>>, attempted |-> <<>>,
     requests |-> <<>>, result |-> NoResult]

\* No build_url call and no update under way.
NoUrlCall ==
    /\ url_in = [endpoint |-> <<>>, path |-> <<>>]
    /\ url_out = <<>>

NoUpdate ==
    /\ user_update = [name |-> "", password |-> <<>>, grants |-> <<>>,
                      revocations |-> <<>>]
    /\ role_update = [name |-> "",
                      grants |-> [kv |-> [read |-> <<>>, write |-> <<>>]],
                      revocations |-> [kv |-> [read |-> <<>>, write |-> <<>>]]]
    /\ calls = <<>>

\* A client over the endpoint list eps, about to call one operation.
InitDispatch(eps) ==
    /\ endpoints \in eps
    /\ op \in Operations
    /\ net \in Nets(op, endpoints, Len(endpoints))
    /\ pc = "idle"
    /\ idx = 0
    /\ errors = <<>>
    /\ attempted = <<>>
    /\ requests = <<>>
    /\ result = NoResult
    /\ second = NotCalled

Init ==
    /\ InitDispatch(ClientEndpoints)
    /\ NoUrlCall
    /\ NoUpdate

Apply(st) ==
    /\ pc' = st.pc
    /\ idx' = st.idx
    /\ errors' = st.errors
    /\ attempted' = st.attempted
    /\ requests' = st.requests
    /\ result' = st.result
    /\ UNCHANGED <<endpoints, net, op>>
    /\ UNCHANGED <<url_vars, update_vars>>

\* disable(client) / enable(client) / status(client): the future returned
\* is polled for the first time.
Dispatch ==
    /\ pc = "idle"
    /\ Apply(first_ok_poll(op, DispatchedEndpoints, 1, <<>>, <<>>, <<>>))
    /\ UNCHANGED repeat_vars

\* The member contacted last answers, or the connection to it fails, and
\* the dispatch is polled again.
Resolve ==
    /\ pc = "wait"
    /\ Apply(first_ok_resolved(op, DispatchedEndpoints, idx, errors, attempted,
                               requests, CallbackResult(op, net[idx])))
    /\ UNCHANGED repeat_vars

Next == Dispatch \/ Resolve

Spec == Init /\ [][Next]_vars

----------------------------------------------------------------------------
\* Vocabulary of the properties, stated from the status codes and bodies
\* and not through the closures above.

Done == pc = "done"
Succeeded == Done /\ result.tag = "Ok"
FailedAll == Done /\ result.tag = "Err"

Positions == 1..Len(endpoints)

\* A request was sent to position p and its future has resolved.
Resolved(p) ==
    /\ \E k \in 1..Len(requests) : requests[k].pos = p
    /\ p < idx \/ (p = idx /\ Done)

\* Position p was, or would be, sent a request: its endpoint is absolute.
Reachable(p) == contains(endpoints[p], "://")

Answers(p, code) ==
    Reachable(p) /\ net[p].kind = "response" /\ net[p].status = code

KnownCodes(o) ==
    CASE o = "enable"  -> {200, 400, 409}
      [] o = "disable" -> {200, 401, 409}
      [] o = "status"  -> {200}

HasAuthStatus(body) ==
    body.json = "object" /\ body.enabled \in {"true", "false"}
HasApiError(body) ==
    body.json = "object" /\ body.errorCode = "110"

\* The member at position p answers, or would answer, with a known Outcome.
KnownOutcomeAt(p) ==
    /\ Reachable(p)
    /\ net[p].kind = "response"
    /\ net[p].status \in KnownCodes(op)
    /\ op = "status" => HasAuthStatus(net[p].body)

\* The X-Etcd-Index of the result is the one of the response of position p.
InfoIsOf(p) == result.cluster_info.etcd_index = net[p].headers.XEtcdIndex

RequestPositions == { requests[k].pos : k \in 1..Len(requests) }
AttemptedPositions == { attempted[k] : k \in 1..Len(attempted) }

----------------------------------------------------------------------------
\* C1: as soon as the probe of one endpoint succeeds, the dispatch is
\* resolved with the success of that endpoint, and no endpoint later in
\* the list has been attempted or sent a request; a resolved dispatch
\* carries the success of one position only.
C1_FirstSuccessShortCircuits ==
    \A p \in Positions :
        (Resolved(p) /\ KnownOutcomeAt(p)) =>
            /\ Succeeded
            /\ idx = p
            /\ InfoIsOf(p)
            /\ \A q \in Positions :
                  q > p => q \notin AttemptedPositions \cup RequestPositions
            /\ \A q \in Positions : (q # p /\ Resolved(q)) => ~KnownOutcomeAt(q)

\* A dispatch that succeeded at the first of three endpoints, the two
\* later ones being ready to answer with a known Outcome too.
C1_Witness ==
    /\ Succeeded
    /\ Len(endpoints) = 3
    /\ idx = 1
    /\ KnownOutcomeAt(2)
    /\ KnownOutcomeAt(3)
    /\ Len(requests) = 1

\* C2: when the probe of every endpoint fails, the dispatch resolves with
\* a failure collection that has one error per endpoint, the i-th error
\* being the failure of the i-th endpoint of the caller's list: InvalidUri
\* for an endpoint whose url is no Uri, Http for a failed connection,
\* UnexpectedStatus with the code answered for enable and disable, and for
\* status Http for a broken body, Api for an error payload under a status
\* other than 200, Serialization otherwise.
C2_AllFailOnePerEndpoint ==
    (Done /\ \A p \in Positions : ~KnownOutcomeAt(p)) =>
        /\ result.tag = "Err"
        /\ Len(result.errors) = Len(endpoints)
        /\ \A i \in Positions :
              LET e == result.errors[i]
              IN  IF ~Reachable(i) THEN e.kind = "InvalidUri"
                  ELSE IF net[i].kind = "connfail"
                       THEN e.kind = "Http" /\ e.cause = "connect"
                  ELSE IF op \in {"enable", "disable"}
                       THEN e.kind = "UnexpectedStatus"
                            /\ e.code = net[i].status
                  ELSE IF net[i].body.json = "ioerror"
                       THEN e.kind = "Http" /\ e.cause = "body"
                  ELSE IF net[i].status # 200 /\ HasApiError(net[i].body)
                       THEN e.kind = "Api"
                  ELSE e.kind = "Serialization"

\* Three endpoints failed in three different ways, and a failure
\* collection of three errors in the order of the endpoints.
C2_Witness ==
    /\ FailedAll
    /\ op = "enable"
    /\ Len(endpoints) = 3
    /\ Len(result.errors) = 3
    /\ result.errors[1].kind = "UnexpectedStatus"
    /\ result.errors[1].code = 418
    /\ result.errors[2].kind = "Http"
    /\ result.errors[3].kind = "UnexpectedStatus"
    /\ result.errors[3].code = 401

C4_UnexpectedStatusFailsOver ==
    op \in {"enable", "disable"} =>
        \A p \in Positions :
            ( /\ Resolved(p)
              /\ net[p].kind = "response"
              /\ net[p].status \notin KnownCodes(op) ) =>
                /\ Len(errors) >= p
                /\ errors[p].kind = "UnexpectedStatus"
                /\ errors[p].code = net[p].status
                /\ p < Len(endpoints) => (p + 1) \in AttemptedPositions
                /\ (Done /\ \E q \in Positions : q > p /\ KnownOutcomeAt(q))
                       => result.tag = "Ok"
                /\ FailedAll => result.errors[p] = errors[p]

\* enable: the first endpoint answers 418, the second 200, and the
\* dispatch returned Enabled.
C4_Witness ==
    /\ Succeeded
    /\ Len(endpoints) >= 2
    /\ op = "enable"
    /\ Answers(1, 418)
    /\ Answers(2, 200)
    /\ idx = 2
    /\ result.data = "Enabled"
    /\ errors[1].kind = "UnexpectedStatus"

\* C5: the closure of enable maps 200 to Enabled, 400 to RootUserRequired
\* and 409 to AlreadyEnabled, each ending the dispatch with that Outcome,
\* and every other status code c to the error UnexpectedStatus(c), which
\* never ends the dispatch with a success.
C5_EnableMapping ==
    op = "enable" =>
        \A p \in Positions :
            (Resolved(p) /\ net[p].kind = "response") =>
                LET c == net[p].status
                    won == Succeeded /\ idx = p
                IN  /\ c = 200 => (won /\ result.data = "Enabled")
                    /\ c = 400 => (won /\ result.data = "RootUserRequired")
                    /\ c = 409 => (won /\ result.data = "AlreadyEnabled")
                    /\ c \notin {200, 400, 409} =>
                          /\ ~won
                          /\ Len(errors) >= p
                          /\ errors[p].kind = "UnexpectedStatus"
                          /\ errors[p].code = c

\* enable: 401, a code disable knows and enable does not, failed at the
\* first endpoint and 409 gave AlreadyEnabled at the second.
C5_Witness ==
    /\ Succeeded
    /\ Len(endpoints) >= 2
    /\ op = "enable"
    /\ Answers(1, 401)
    /\ Answers(2, 409)
    /\ errors[1].code = 401
    /\ result.data = "AlreadyEnabled"

\* C6: the closure of disable maps 200 to Disabled, 409 to AlreadyDisabled
\* and 401 to Unauthorized, each ending the dispatch with that Outcome,
\* and every other status code c to the error UnexpectedStatus(c), which
\* never ends the dispatch with a success.
C6_DisableMapping ==
    op = "disable" =>
        \A p \in Positions :
            (Resolved(p) /\ net[p].kind = "response") =>
                LET c == net[p].status
                    won == Succeeded /\ idx = p
                IN  /\ c = 200 => (won /\ result.data = "Disabled")
                    /\ c = 409 => (won /\ result.data = "AlreadyDisabled")
                    /\ c = 401 => (won /\ result.data = "Unauthorized")
                    /\ c \notin {200, 401, 409} =>
                          /\ ~won
                          /\ Len(errors) >= p
                          /\ errors[p].kind = "UnexpectedStatus"
                          /\ errors[p].code = c

\* disable: 400, a code enable knows and disable does not, failed at the
\* first endpoint and 401 gave Unauthorized at the second.
C6_Witness ==
    /\ Succeeded
    /\ Len(endpoints) >= 2
    /\ op = "disable"
    /\ Answers(1, 400)
    /\ Answers(2, 401)
    /\ errors[1].code = 400
    /\ result.data = "Unauthorized"

\* C7: for status, the result of a probe whose body was read is decided by
\* the status and the body: 200 with a body holding {enabled: b} succeeds
\* with b; 200 with any other body fails with Serialization; another
\* status with an error payload fails with Api, and with any other body
\* with Serialization.  A success is never taken from a status other than
\* 200.
C7_StatusProbe ==
    op = "status" =>
        /\ \A p \in Positions :
              ( /\ Resolved(p)
                /\ net[p].kind = "response"
                /\ net[p].body.json # "ioerror" ) =>
                  LET c == net[p].status
                      body == net[p].body
                      won == Succeeded /\ idx = p
                      failedWith(k) == /\ ~won
                                       /\ Len(errors) >= p
                                       /\ errors[p].kind = k
                  IN  /\ (c = 200 /\ HasAuthStatus(body)) =>
                            (won /\ result.data = (body.enabled = "true"))
                      /\ (c = 200 /\ ~HasAuthStatus(body)) =>
                            failedWith("Serialization")
                      /\ (c # 200 /\ HasApiError(body)) => failedWith("Api")
                      /\ (c # 200 /\ ~HasApiError(body)) =>
                            failedWith("Serialization")
        /\ Succeeded => net[idx].status = 200

\* status: 500 with an error payload failed with Api at the first
\* endpoint, 200 with garbage failed with Serialization at the second, and
\* 200 with {enabled: false} gave false at the third.
C7_Witness ==
    /\ Succeeded
    /\ Len(endpoints) >= 3
    /\ op = "status"
    /\ Answers(1, 500)
    /\ HasApiError(net[1].body)
    /\ errors[1].kind = "Api"
    /\ Answers(2, 200)
    /\ net[2].body.json = "garbage"
    /\ errors[2].kind = "Serialization"
    /\ Answers(3, 200)
    /\ result.data = FALSE

\* C8: the ClusterInfo of a successful dispatch comes from the headers of
\* the response whose status (and body, for status) gave the Outcome
\* returned; it is the ClusterInfo of no other endpoint's response, in
\* particular of none that was mapped to a failure.
C8_MetadataOfWinningResponse ==
    Succeeded =>
        /\ Resolved(idx)
        /\ KnownOutcomeAt(idx)
        /\ result.cluster_info.etcd_index = net[idx].headers.XEtcdIndex
        /\ result.cluster_info.cluster_id = net[idx].headers.XEtcdClusterId
        /\ op = "enable" =>
              result.data = CASE net[idx].status = 200 -> "Enabled"
                              [] net[idx].status = 400 -> "RootUserRequired"
                              [] OTHER -> "AlreadyEnabled"
        /\ op = "disable" =>
              result.data = CASE net[idx].status = 200 -> "Disabled"
                              [] net[idx].status = 401 -> "Unauthorized"
                              [] OTHER -> "AlreadyDisabled"
        /\ op = "status" => result.data = (net[idx].body.enabled = "true")
        /\ \A q \in Positions \ {idx} :
              result.cluster_info.etcd_index # net[q].headers.XEtcdIndex

\* status: the first endpoint answered 500 with an error payload, the
\* second 200 with {enabled: true}; the ClusterInfo is the second's.
C8_Witness ==
    /\ Succeeded
    /\ Len(endpoints) >= 2
    /\ op = "status"
    /\ Answers(1, 500)
    /\ errors[1].kind = "Api"
    /\ Answers(2, 200)
    /\ idx = 2
    /\ result.data = TRUE
    /\ result.cluster_info.etcd_index = net[2].headers.XEtcdIndex

C10_FirstKnownOutcomeWins ==
    LET known == { p \in Positions : KnownOutcomeAt(p) }
    IN  (Done /\ known # {}) =>
            LET first == CHOOSE p \in known : \A q \in known : p <= q
            IN  /\ result.tag = "Ok"
                /\ idx = first
                /\ InfoIsOf(first)
                /\ \A q \in RequestPositions : q <= first
                /\ op = "enable" =>
                      result.data =
                          CASE net[first].status = 200 -> "Enabled"
                            [] net[first].status = 400 -> "RootUserRequired"
                            [] net[first].status = 409 -> "AlreadyEnabled"
                /\ op = "disable" =>
                      result.data =
                          CASE net[first].status = 200 -> "Disabled"
                            [] net[first].status = 401 -> "Unauthorized"
                            [] net[first].status = 409 -> "AlreadyDisabled"
                /\ op = "status" =>
                      result.data = (net[first].body.enabled = "true")

\* enable: the first endpoint answers 400 and the second would answer 200;
\* RootUserRequired is returned after a single request.
C10_Witness ==
    /\ Succeeded
    /\ Len(endpoints) >= 2
    /\ op = "enable"
    /\ Answers(1, 400)
    /\ Answers(2, 200)
    /\ result.data = "RootUserRequired"
    /\ Len(requests) = 1

----------------------------------------------------------------------------
\* C11: at every point of a dispatch the endpoints attempted so far are the
\* first k positions of the caller's list, each once and in the order of
\* the list (so that an endpoint that stands twice in the list is
\* attempted once per occurrence); the requests sent go to the endpoints
\* of increasing positions, one request per position at most; a dispatch
\* that waits has attempted exactly the positions up to the current one,
\* and a dispatch that failed has attempted every position.
C11_AttemptsArePrefix ==
    /\ Len(attempted) <= Len(endpoints)
    /\ attempted = [k \in 1..Len(attempted) |-> k]
    /\ \A k \in 1..Len(requests) :
          LET p == requests[k].pos
              ep == endpoints[p]
          IN  /\ p \in AttemptedPositions
              /\ k > 1 => requests[k - 1].pos < p
              /\ Len(requests[k].uri) >= Len(ep)
              /\ SubSeq(requests[k].uri, 1, Len(ep)) = ep
    /\ pc = "wait" => Len(attempted) = idx
    /\ Succeeded => Len(attempted) = idx
    /\ FailedAll => Len(attempted) = Len(endpoints)

\* The same endpoint three times in the list, attempted three times, one
\* request each, all failed.
C11_Witness ==
    /\ FailedAll
    /\ Len(endpoints) = 3
    /\ endpoints[1] = endpoints[2]
    /\ endpoints[2] = endpoints[3]
    /\ attempted = <<1, 2, 3>>
    /\ Len(requests) = 3
    /\ requests[1].uri = requests[3].uri

\* C12: an endpoint whose composed url is no Uri (an endpoint without a
\* scheme) fails at once, when it is attempted, with a Transport-class
\* error, InvalidUri; no request is ever sent to it; the failure stands at
\* its position among the errors, and the next endpoint of the list is
\* attempted, or the dispatch fails if there is none.
C12_MalformedUrlFailsWithoutCall ==
    \A p \in AttemptedPositions :
        ~Reachable(p) =>
            /\ p \notin RequestPositions
            /\ Len(errors) >= p
            /\ errors[p].kind = "InvalidUri"
            /\ errors[p].kind \in TransportKinds
            /\ p < Len(endpoints) => (p + 1) \in AttemptedPositions
            /\ p = Len(endpoints) => FailedAll
            /\ FailedAll => result.errors[p].kind = "InvalidUri"

\* status: the first endpoint has no scheme, the second answered 200 with
\* {enabled: true}; one request was sent, to the second.
C12_Witness ==
    /\ Succeeded
    /\ op = "status"
    /\ Len(endpoints) = 2
    /\ ~Reachable(1)
    /\ Answers(2, 200)
    /\ attempted = <<1, 2>>
    /\ RequestPositions = {2}
    /\ errors = <<InvalidUri>>
    /\ result.data = TRUE

\* C16: is_enabled of the Outcome of a successful enable is true exactly
\* when the winning response had status 200 or 409 and false when it had
\* 400; is_disabled of the Outcome of a successful disable is true
\* exactly for 200 or 409 and false for 401.
C16_IsEnabledIsDisabled ==
    /\ (Succeeded /\ op = "enable") =>
          /\ is_enabled(result.data) = (net[idx].status \in {200, 409})
          /\ net[idx].status = 400 => ~is_enabled(result.data)
    /\ (Succeeded /\ op = "disable") =>
          /\ is_disabled(result.data) = (net[idx].status \in {200, 409})
          /\ net[idx].status = 401 => ~is_disabled(result.data)

\* disable: the second endpoint answered 401 after the first failed, and
\* is_disabled of the Outcome is false.
C16_Witness ==
    /\ Succeeded
    /\ op = "disable"
    /\ idx = 2
    /\ net[2].status = 401
    /\ result.data = "Unauthorized"
    /\ ~is_disabled(result.data)

----------------------------------------------------------------------------
\* build_url on its own

\* Longest path, in tokens, of an endpoint Uri handed to build_url.
MaxPathLen == 3

\* Endpoint Uris: a scheme and a host, or a host and a port alone,
\* followed by a path of slashes and segments; only what parses as a Uri.
UrlEndpoints ==
    LET heads == { <<"http", "://", "a">>, <<"http", "://", "b">>, <<"a:80">> }
        tails == UNION { [1..n -> {"/", "etcd"}] : n \in 0..MaxPathLen }
    IN  { u \in { h \o t : h \in heads, t \in tails } : UriFromStr(u).ok }

\* The path suffixes of the auth API.
UrlPaths == { <<"/", "enable">>, <<"/", "users">>, <<"/", "roles">> }

\* No dispatch under way.
NoDispatch ==
    /\ endpoints = <<>>
    /\ net = <<>>
    /\ op = "enable"
    /\ pc = "idle"
    /\ idx = 0
    /\ errors = <<>>
    /\ attempted = <<>>
    /\ requests = <<>>
    /\ result = NoResult
    /\ second = NotCalled

InitUrl ==
    /\ url_in \in [endpoint : UrlEndpoints, path : UrlPaths]
    /\ url_out = <<>>
    /\ NoDispatch
    /\ NoUpdate

\* build_url(endpoint, path) is called.
BuildUrl ==
    /\ url_out = <<>>
    /\ url_out' = build_url(url_in.endpoint, url_in.path)
    /\ UNCHANGED <<url_in, dispatch_vars, repeat_vars, update_vars>>

NextUrl == BuildUrl

UrlSpec == InitUrl /\ [][NextUrl]_vars

\* The endpoint without the slashes it ends with.
RECURSIVE EndpointBase(_)
EndpointBase(endpoint) ==
    IF ends_with(endpoint, "/")
    THEN EndpointBase(SubSeq(endpoint, 1, Len(endpoint) - 1))
    ELSE endpoint

\* C13: the url build_url returns is the endpoint base (the endpoint
\* without its trailing slashes), exactly one slash, v2/auth and the path
\* suffix: never no slash and never two slashes between the base and
\* v2/auth, so that an endpoint with and without a trailing slash give the
\* same url.
C13_ExactlyOneSlash ==
    url_out # <<>> =>
        url_out = EndpointBase(url_in.endpoint) \o <<"/">>
                      \o <<"v2", "/", "auth">> \o url_in.path

----------------------------------------------------------------------------
\* RoleUpdate and Permission

\* Most methods called on one update.
MaxCalls == 3

Keys == {"k1", "k2"}

\* Permission::add_read_permission: self.read.push(key)
add_read_permission(perm, key) ==
    [perm EXCEPT !.read = Append(@, key)]

\* Permission::add_write_permission: self.write.push(key)
add_write_permission(perm, key) ==
    [perm EXCEPT !.write = Append(@, key)]

\* Vec::remove(position): the vector without the element at position.
remove(vec, position) ==
    SubSeq(vec, 1, position - 1) \o SubSeq(vec, position + 1, Len(vec))

\* iter().position(|k| k == key): the first position that holds key, 0
\* when there is none.
position(vec, key) ==
    IF \E i \in 1..Len(vec) : vec[i] = key
    THEN CHOOSE i \in 1..Len(vec) :
             vec[i] = key /\ \A j \in 1..(i - 1) : vec[j] # key
    ELSE 0

\* Permission::remove_read_permission
remove_read_permission(perm, key) ==
    IF position(perm.read, key) # 0
    THEN [perm EXCEPT !.read = remove(@, position(perm.read, key))]
    ELSE perm

\* Permission::remove_write_permission
remove_write_permission(perm, key) ==
    IF position(perm.write, key) # 0
    THEN [perm EXCEPT !.write = remove(@, position(perm.write, key))]
    ELSE perm

\* Permission::new, Permissions::new
PermissionNew == [read |-> <<>>, write |-> <<>>]
PermissionsNew == [kv |-> PermissionNew]

\* RoleUpdate::new(role)
RoleUpdateNew(role) ==
    [name |-> role, grants |-> PermissionsNew, revocations |-> PermissionsNew]

\* RoleUpdate::grant_kv_read_permission
grant_kv_read_permission(u, key) ==
    [u EXCEPT !.grants.kv = add_read_permission(@, key)]

\* RoleUpdate::grant_kv_write_permission
grant_kv_write_permission(u, key) ==
    [u EXCEPT !.grants.kv = add_write_permission(@, key)]

\* RoleUpdate::revoke_kv_read_permission
revoke_kv_read_permission(u, key) ==
    [u EXCEPT !.revocations.kv = remove_read_permission(@, key)]

\* RoleUpdate::revoke_kv_write_permission
revoke_kv_write_permission(u, key) ==
    [u EXCEPT !.revocations.kv = remove_write_permission(@, key)]

Call(method, arg) == [method |-> method, arg |-> arg]

InitRole ==
    /\ role_update = RoleUpdateNew("role")
    /\ user_update = [name |-> "", password |-> <<>>, grants |-> <<>>,
                      revocations |-> <<>>]
    /\ calls = <<>>
    /\ NoDispatch
    /\ NoUrlCall

\* What a method of RoleUpdate leaves alone.
role_frame == <<user_update, dispatch_vars, repeat_vars, url_vars>>

GrantKvRead ==
    /\ Len(calls) < MaxCalls
    /\ \E k \in Keys :
          /\ role_update' = grant_kv_read_permission(role_update, k)
          /\ calls' = Append(calls, Call("grant_kv_read_permission", k))
    /\ UNCHANGED role_frame

GrantKvWrite ==
    /\ Len(calls) < MaxCalls
    /\ \E k \in Keys :
          /\ role_update' = grant_kv_write_permission(role_update, k)
          /\ calls' = Append(calls, Call("grant_kv_write_permission", k))
    /\ UNCHANGED role_frame

RevokeKvRead ==
    /\ Len(calls) < MaxCalls
    /\ \E k \in Keys :
          /\ role_update' = revoke_kv_read_permission(role_update, k)
          /\ calls' = Append(calls, Call("revoke_kv_read_permission", k))
    /\ UNCHANGED role_frame

RevokeKvWrite ==
    /\ Len(calls) < MaxCalls
    /\ \E k \in Keys :
          /\ role_update' = revoke_kv_write_permission(role_update, k)
          /\ calls' = Append(calls, Call("revoke_kv_write_permission", k))
    /\ UNCHANGED role_frame

NextRole == GrantKvRead \/ GrantKvWrite \/ RevokeKvRead \/ RevokeKvWrite

RoleSpec == InitRole /\ [][NextRole]_vars

Elements(vec) == { vec[i] : i \in 1..Len(vec) }

\* C14: right after revoke_kv_read_permission(k) the read list of the
\* revocations of the RoleUpdate holds k, and right after
\* revoke_kv_write_permission(k) their write list holds k, whatever was
\* called before.
C14_RevokeRecordsKey ==
    calls # <<>> =>
        LET last == calls[Len(calls)]
        IN  /\ last.method = "revoke_kv_read_permission" =>
                  last.arg \in Elements(role_update.revocations.kv.read)
            /\ last.method = "revoke_kv_write_permission" =>
                  last.arg \in Elements(role_update.revocations.kv.write)

----------------------------------------------------------------------------
\* Two calls of one operation on one client, against the same members.  The
\* second call may start before, while or after the first one runs.

MaxTwoEndpoints == 2

TwoEndpoints ==
    UNION { [1..n -> EndpointUris] : n \in 1..MaxTwoEndpoints }

\* The second call starting from what the first call has gathered so far.
CallStart_shared ==
    [errors |-> errors, attempted |-> attempted, requests |-> requests]

\* What a call starts from: the closure and the endpoint list are built
\* anew by each call, and first_ok starts with no errors.
CallStart ==
    [errors |-> <<>>, attempted |-> <<>>, requests |-> <<>>]

InitTwo ==
    /\ InitDispatch(TwoEndpoints)
    /\ NoUrlCall
    /\ NoUpdate

\* The operation is called a second time and its future polled.
DispatchSecond ==
    /\ second.pc = "idle"
    /\ second' = first_ok_poll(op, DispatchedEndpoints, 1, CallStart.errors,
                               CallStart.attempted, CallStart.requests)
    /\ UNCHANGED <<dispatch_vars, url_vars, update_vars>>

\* The member the second call contacted last answers as it answered the
\* first call, and the second future is polled again.
ResolveSecond ==
    /\ second.pc = "wait"
    /\ second' = first_ok_resolved(op, DispatchedEndpoints, second.idx,
                                   second.errors, second.attempted,
                                   second.requests,
                                   CallbackResult(op, net[second.idx]))
    /\ UNCHANGED <<dispatch_vars, url_vars, update_vars>>

NextTwo == Dispatch \/ Resolve \/ DispatchSecond \/ ResolveSecond

TwoSpec == InitTwo /\ [][NextTwo]_vars

----------------------------------------------------------------------------
\* A dispatch whose future is polled and whose requests all resolve.

MaxLiveEndpoints == 2

LiveEndpoints ==
    UNION { [1..n -> EndpointUris] : n \in 1..MaxLiveEndpoints }

InitLive ==
    /\ InitDispatch(LiveEndpoints)
    /\ NoUrlCall
    /\ NoUpdate

\* The executor polls the future it was given, and every request in flight
\* resolves, with a response or with a transport error.
LiveSpec ==
    InitLive /\ [][Next]_vars /\ WF_vars(Dispatch) /\ WF_vars(Resolve)

\* A dispatch that has resolved holds the first success or one error for
\* each endpoint of the list; while it waits it has no success yet.
ResolvesRight ==
    /\ Done => Succeeded \/ FailedAll
    /\ Succeeded =>
          /\ result = CallbackResult(op, net[idx])
          /\ \A p \in 1..(idx - 1) : CallbackResult(op, net[p]).tag = "Err"
    /\ FailedAll =>
          /\ AttemptedPositions = Positions
          /\ Len(result.errors) = Len(endpoints)
          /\ \A p \in Positions : CallbackResult(op, net[p]).tag = "Err"
    /\ pc = "wait" =>
          /\ result = NoResult
          /\ \A p \in 1..(idx - 1) : CallbackResult(op, net[p]).tag = "Err"

\* Once resolved, a dispatch attempts no endpoint and sends no request.
StaysResolved ==
    Done => /\ pc' = "done"
            /\ result' = result
            /\ attempted' = attempted
            /\ requests' = requests

\* C17: a dispatch over a finite list whose requests all resolve does
\* resolve, with the first success or, after the last endpoint has failed,
\* with the failure list; it never fails while an endpoint is untried and
\* never waits on, or sends to, an endpoint after a success.
C17_DispatchResolves ==
    /\ <>Done
    /\ []ResolvesRight
    /\ [][StaysResolved]_vars

\* A dispatch over two endpoints that sent two requests and failed on both.
C17_Witness ==
    /\ FailedAll
    /\ Len(endpoints) = 2
    /\ Len(requests) = 2
    /\ Len(result.errors) = 2

----------------------------------------------------------------------------
\* UserUpdate.  An Option is a sequence: <<>> is None, <<v>> is Some(v).

Roles == {"r1", "r2"}
Passwords == {"p1", "p2"}

None == <<>>
Some(v) == <<v>>

\* UserUpdate::new(name)
UserUpdateNew(name) ==
    [name |-> name, password |-> None, grants |-> None, revocations |-> None]

\* UserUpdate::update_password
update_password(u, password) ==
    [u EXCEPT !.password = Some(password)]

\* grant_role putting the role in front of the grants.
grant_role_in_front(u, role) ==
    IF u.grants # None
    THEN [u EXCEPT !.grants = Some(<<role>> \o u.grants[1])]
    ELSE [u EXCEPT !.grants = Some(<<role>>)]

\* UserUpdate::grant_role
grant_role(u, role) ==
    IF u.grants # None
    THEN [u EXCEPT !.grants = Some(Append(u.grants[1], role))]
    ELSE [u EXCEPT !.grants = Some(<<role>>)]

\* UserUpdate::revoke_role
revoke_role(u, role) ==
    IF u.revocations # None
    THEN [u EXCEPT !.revocations = Some(Append(u.revocations[1], role))]
    ELSE [u EXCEPT !.revocations = Some(<<role>>)]

InitUser ==
    /\ user_update = UserUpdateNew("user")
    /\ role_update = [name |-> "",
                      grants |-> [kv |-> [read |-> <<>>, write |-> <<>>]],
                      revocations |-> [kv |-> [read |-> <<>>, write |-> <<>>]]]
    /\ calls = <<>>
    /\ NoDispatch
    /\ NoUrlCall

\* What a method of UserUpdate leaves alone.
user_frame == <<role_update, dispatch_vars, repeat_vars, url_vars>>

UpdatePassword ==
    /\ Len(calls) < MaxCalls
    /\ \E p \in Passwords :
          /\ user_update' = update_password(user_update, p)
          /\ calls' = Append(calls, Call("update_password", p))
    /\ UNCHANGED user_frame

GrantRole ==
    /\ Len(calls) < MaxCalls
    /\ \E r \in Roles :
          /\ user_update' = grant_role(user_update, r)
          /\ calls' = Append(calls, Call("grant_role", r))
    /\ UNCHANGED user_frame

RevokeRole ==
    /\ Len(calls) < MaxCalls
    /\ \E r \in Roles :
          /\ user_update' = revoke_role(user_update, r)
          /\ calls' = Append(calls, Call("revoke_role", r))
    /\ UNCHANGED user_frame

NextUser == UpdatePassword \/ GrantRole \/ RevokeRole

UserSpec == InitUser /\ [][NextUser]_vars

\* The arguments of the calls of one method, in call order.
RECURSIVE ArgsOf(_, _)
ArgsOf(cs, method) ==
    IF cs = <<>> THEN <<>>
    ELSE LET rest == ArgsOf(SubSeq(cs, 1, Len(cs) - 1), method)
             c == cs[Len(cs)]
         IN  IF c.method = method THEN Append(rest, c.arg) ELSE rest

\* The vector of an Option<Vec>, empty for None.
VecOf(opt) == IF opt = <<>> THEN <<>> ELSE opt[1]

\* After any calls, grants and revocations hold the roles granted and
\* revoked, in call order with duplicates, and are None exactly when the
\* method was never called.
UserUpdateHoldsCalls ==
    LET granted == ArgsOf(calls, "grant_role")
        revoked == ArgsOf(calls, "revoke_role")
    IN  /\ user_update.grants =
              IF granted = <<>> THEN <<>> ELSE <<granted>>
        /\ user_update.revocations =
              IF revoked = <<>> THEN <<>> ELSE <<revoked>>
        /\ user_update.name = "user"

\* What one call changes and what it leaves as it was.
UserUpdateFrame ==
    calls' # calls =>
        LET c == calls'[Len(calls')]
            u == user_update
            v == user_update'
        IN  /\ v.name = u.name
            /\ c.method = "grant_role" =>
                  /\ v.grants = <<Append(VecOf(u.grants), c.arg)>>
                  /\ v.password = u.password
                  /\ v.revocations = u.revocations
            /\ c.method = "revoke_role" =>
                  /\ v.revocations = <<Append(VecOf(u.revocations), c.arg)>>
                  /\ v.password = u.password
                  /\ v.grants = u.grants
            /\ c.method = "update_password" =>
                  /\ v.password = <<c.arg>>
                  /\ v.grants = u.grants
                  /\ v.revocations = u.revocations

\* C18: grant_role(r) appends r at the end of the grants and leaves name,
\* password and revocations as they were; revoke_role(r) appends r at the
\* end of the revocations and leaves name, password and grants as they
\* were; update_password changes the password alone.  After any calls the
\* grants and the revocations hold the roles granted and revoked in call
\* order, duplicates kept, and each is None exactly when its method was
\* never called.
C18_UserUpdateFrames ==
    [](UserUpdateHoldsCalls) /\ [][UserUpdateFrame]_vars

\* r1 was granted twice around a revoke_role(r2): the grants hold r1 twice,
\* the revocations r2, and the password is still None.
C18_Witness ==
    /\ calls = <<Call("grant_role", "r1"), Call("revoke_role", "r2"),
                 Call("grant_role", "r1")>>
    /\ user_update.grants = Some(<<"r1", "r1">>)
    /\ user_update.revocations = Some(<<"r2">>)
    /\ user_update.password = None

====
